---- MODULE Spec2Model ----
(***************************************************************************)
(* Model of the login validation of src/app.py: extendedLoginForm.validate *)
(* (lines 132-181), the User record it reads (lines 85-100) and the        *)
(* datastore wired at lines 188-189.                                       *)
(*                                                                         *)
(* A request owns one form instance.  validate runs on it line by line;    *)
(* every line range that reads or writes the shared user table is one      *)
(* step, so that the steps of two requests can interleave.  Strings are    *)
(* sequences of one-character strings.                                     *)
(***************************************************************************)
EXTENDS Integers, Sequences, FiniteSets, TLC

VARIABLES form, directory, prev

vars == <<form, directory, prev>>

(* The requests that run validate: request 1 in the sequential            *)
(* specification, requests 1 and 2 in the concurrent one.                  *)
Procs == {1, 2}

----------------------------------------------------------------------------
(* Strings                                                                 *)

RECURSIVE LStrip(_)
LStrip(s) ==
    IF s = <<>> THEN s
    ELSE IF Head(s) = " " THEN LStrip(Tail(s)) ELSE s

RECURSIVE RStrip(_)
RStrip(s) ==
    IF s = <<>> THEN s
    ELSE IF s[Len(s)] = " " THEN RStrip(SubSeq(s, 1, Len(s) - 1)) ELSE s

(* str.strip() of lines 142 and 147 *)
StripKeepsBlank(s) == s

Strip(s) == RStrip(LStrip(s))

----------------------------------------------------------------------------
(* Password hashes (User.password, line 89).  A hash is modelled by the    *)
(* plaintext it was made from and the scheme that made it; the empty       *)
(* column is NoHash.                                                       *)

NoHash == [plain |-> <<>>, scheme |-> "none"]

(* hash_password: the hash the current scheme makes of a plaintext *)
HashPasswordDropsPlain(pw) == [plain |-> <<>>, scheme |-> "current"]

HashPassword(pw) == [plain |-> pw, scheme |-> "current"]

(* _pwd_context.verify inside verify_and_update_password (line 166) *)
VerifyHash(pw, h) == h.scheme # "none" /\ h.plain = pw

(* _pwd_context.needs_update inside verify_and_update_password (line 166) *)
NeedsUpdate(h) == h.scheme = "deprecated"

----------------------------------------------------------------------------
(* The user table (class User, lines 85-100) and the submitted data        *)

KnownNames == {<<"a">>, <<"b">>}

(* self.user before line 153 has run, and get_user's None *)
NoUser == [name |-> <<>>, password |-> NoHash, active |-> FALSE, confirm |-> FALSE]

(* the password each account was created with *)
PasswordOf(n) == IF n = <<"a">> THEN <<"p">> ELSE <<"q">>

(* The rows account n can hold: password unset, hashed by a deprecated or  *)
(* by the current scheme; active or not; requires_confirmation or not.     *)
RowsOf(n) ==
    IF n = <<"a">>
    THEN {[name |-> n, password |-> h, active |-> a, confirm |-> c] :
            h \in {NoHash,
                   [plain |-> PasswordOf(n), scheme |-> "deprecated"],
                   [plain |-> PasswordOf(n), scheme |-> "current"]},
            a \in BOOLEAN, c \in BOOLEAN}
    ELSE {[name |-> n, password |-> h, active |-> TRUE, confirm |-> FALSE] :
            h \in {[plain |-> PasswordOf(n), scheme |-> "deprecated"],
                   [plain |-> PasswordOf(n), scheme |-> "current"]}}

UsernameInputs == {<<>>, <<" ">>, <<"a">>, <<"b">>, <<"c">>}

PasswordInputs == {<<" ">>, <<"p">>, <<"q">>}

(* The submitted form data.  inheritedOk: the validators of the fields     *)
(* the form inherits from LoginForm accept the submitted data.             *)
Inputs ==
    [username : UsernameInputs, password : PasswordInputs, inheritedOk : BOOLEAN]

NoInput == [username |-> <<>>, password |-> <<>>, inheritedOk |-> FALSE]

Fields == {"username", "password", "inherited"}

NoErrors == [f \in Fields |-> <<>>]

(* A fresh form instance bound to the submitted data *)
NewForm(in, dir) ==
    [pc |-> "base", input |-> in, user |-> NoUser, errors |-> NoErrors,
     result |-> "none", lookups |-> 0, verifies |-> 0, puts |-> 0,
     putPlain |-> <<>>, dir0 |-> dir, backend |-> "ok"]

IdleForm(dir) == [NewForm(NoInput, dir) EXCEPT !.pc = "idle"]

AddError(f, field, msg) ==
    [f EXCEPT !.errors[field] = Append(@, msg)]

ReturnFalse(f) == [f EXCEPT !.pc = "done", !.result = "false"]

----------------------------------------------------------------------------
(* extendedLoginForm.validate, one operator per line range.  Each takes    *)
(* the form and returns the form after the lines have run.                 *)

(* Required() of line 133, run by the base validation of line 137 *)
Required(data) == Strip(data) # <<>>

(* lines 137-138: the base validation runs every field's validators, each  *)
(* failing field records its message, and validate returns False if any    *)
(* field failed.                                                           *)
BaseValidate(f) ==
    LET f1 == IF Required(f.input.username) THEN f
              ELSE AddError(f, "username", "This field is required.")
        f2 == IF f.input.inheritedOk THEN f1
              ELSE AddError(f1, "inherited", "INVALID FIELD")
    IN  IF f2.errors = NoErrors
        THEN [f2 EXCEPT !.pc = "presence"]
        ELSE ReturnFalse(f2)

(* lines 142-149 *)
Presence(f) ==
    IF Strip(f.input.username) = <<>>
    THEN ReturnFalse(AddError(f, "username", "USERNAME NOT PROVIDED"))
    ELSE IF Strip(f.input.password) = <<>>
    THEN ReturnFalse(AddError(f, "password", "PASSWORD NOT PROVIDED"))
    ELSE [f EXCEPT !.pc = "lookup"]

(* security.datastore.get_user of line 153: the row whose username is the  *)
(* submitted data, as submitted; None if there is none.                    *)
GetUser(dir, data) ==
    IF data \in DOMAIN dir THEN dir[data] ELSE NoUser

(* lines 153-158 *)
LookupForgetsUser(f, dir) ==
    LET u  == GetUser(dir, f.input.username)
        f1 == [f EXCEPT !.lookups = @ + 1]
    IN  IF u = NoUser
        THEN ReturnFalse(AddError(f1, "username", "INCORRECT USERNAME/PASSWORD"))
        ELSE [f1 EXCEPT !.pc = "passwordset"]

Lookup(f, dir) ==
    LET u  == GetUser(dir, f.input.username)
        f1 == [f EXCEPT !.user = u, !.lookups = @ + 1]
    IN  IF u = NoUser
        THEN ReturnFalse(AddError(f1, "username", "INCORRECT USERNAME/PASSWORD"))
        ELSE [f1 EXCEPT !.pc = "passwordset"]

(* line 153 when the user table cannot be reached: get_user raises, the    *)
(* assignment to self.user does not happen, and validate, which has no     *)
(* handler (lines 136-181), lets the exception through.                    *)
LookupUnavailableAsNone(f) ==
    ReturnFalse(AddError([f EXCEPT !.lookups = @ + 1, !.backend = "lookup"],
                         "username", "INCORRECT USERNAME/PASSWORD"))

LookupUnavailable(f) ==
    [f EXCEPT !.lookups = @ + 1, !.backend = "lookup",
              !.pc = "done", !.result = "unavailable"]

(* lines 161-163 *)
PasswordSetSkipped(f) == [f EXCEPT !.pc = "verify"]

PasswordSet(f) ==
    IF f.user.password = NoHash
    THEN ReturnFalse(AddError(f, "password", "PASSWORD WAS NOT SET"))
    ELSE [f EXCEPT !.pc = "verify"]

(* verify_and_update_password(password, user) of line 166: verifies the    *)
(* password against user.password; if it verifies and the hash needs an    *)
(* update, sets user.password to a new hash of the password and puts the   *)
(* user to the datastore.  Returns the form with the user updated.         *)
VerifyAndUpdateNoRehash(f) ==
    [f EXCEPT !.verifies = @ + 1]

VerifyAndUpdate(f) ==
    LET verified == VerifyHash(f.input.password, f.user.password)
    IN  IF verified /\ NeedsUpdate(f.user.password)
        THEN [f EXCEPT !.verifies = @ + 1,
                       !.user.password = HashPassword(f.input.password),
                       !.puts = @ + 1,
                       !.putPlain = f.input.password]
        ELSE [f EXCEPT !.verifies = @ + 1]

(* lines 166-168 *)
Verify(f) ==
    LET verified == VerifyHash(f.input.password, f.user.password)
        f1       == VerifyAndUpdate(f)
    IN  IF ~verified
        THEN ReturnFalse(AddError(f1, "password", "INCORRECT USERNAME/PASSWORD"))
        ELSE IF f1.puts > f.puts
        THEN [f1 EXCEPT !.pc = "store"]
        ELSE [f1 EXCEPT !.pc = "confirm"]

(* line 166 when the hasher cannot verify: verify_and_update_password      *)
(* raises and validate lets the exception through.                         *)
VerifyUnavailable(f) ==
    [f EXCEPT !.verifies = @ + 1, !.backend = "verify",
              !.pc = "done", !.result = "unavailable"]

(* _datastore.put(user) inside verify_and_update_password: the row of the  *)
(* user table takes the password the request set on its user.              *)
Put(f, dir) == [dir EXCEPT ![f.user.name].password = f.user.password]

(* requires_confirmation(self.user) of line 171: confirmation is enabled   *)
(* and the user has not confirmed.                                         *)
RequiresConfirmation(u) == u.confirm

(* lines 171-173: self.user is a User (lines 85-100), which has no errors  *)
(* attribute: line 172 raises AttributeError and validate does not return. *)
(* (User has no confirmed_at either, line 92: where requires_confirmation  *)
(* reads it, the AttributeError is raised one line earlier, with the same  *)
(* form state.)                                                            *)
ConfirmationGateSkipped(f) == [f EXCEPT !.pc = "active"]

ConfirmationGate(f) ==
    IF RequiresConfirmation(f.user)
    THEN [f EXCEPT !.pc = "done", !.result = "raised"]
    ELSE [f EXCEPT !.pc = "active"]

(* lines 176-181 *)
ActiveGateOpen(f) == [f EXCEPT !.pc = "done", !.result = "true"]

ActiveGateSilent(f) ==
    IF ~f.user.active
    THEN ReturnFalse(f)
    ELSE [f EXCEPT !.pc = "done", !.result = "true"]

ActiveGate(f) ==
    IF ~f.user.active
    THEN ReturnFalse(AddError(f, "username", "DISABLED ACCOUNT"))
    ELSE [f EXCEPT !.pc = "done", !.result = "true"]

(* One step of validate on form f against the user table dir *)
Step(f, dir) ==
    CASE f.pc = "base"        -> [form |-> BaseValidate(f), dir |-> dir]
      [] f.pc = "presence"    -> [form |-> Presence(f), dir |-> dir]
      [] f.pc = "lookup"      -> [form |-> Lookup(f, dir), dir |-> dir]
      [] f.pc = "passwordset" -> [form |-> PasswordSet(f), dir |-> dir]
      [] f.pc = "verify"      -> [form |-> Verify(f), dir |-> dir]
      [] f.pc = "store"       -> [form |-> [f EXCEPT !.pc = "confirm"],
                                  dir |-> Put(f, dir)]
      [] f.pc = "confirm"     -> [form |-> ConfirmationGate(f), dir |-> dir]
      [] f.pc = "active"      -> [form |-> ActiveGate(f), dir |-> dir]
      [] OTHER                -> [form |-> f, dir |-> dir]

(* validate run from form f to its end with no other request running *)
RECURSIVE RunAlone(_, _)
RunAlone(f, dir) ==
    IF f.pc \in {"done", "idle"} THEN [form |-> f, dir |-> dir]
    ELSE LET r == Step(f, dir) IN RunAlone(r.form, r.dir)

(* What the caller sees of a finished call: the return value (or that an   *)
(* exception was raised), the field errors, and the form's user.           *)
Outcome(f) == [result |-> f.result, errors |-> f.errors, user |-> f.user.name]

NoOutcome == [result |-> "none", errors |-> NoErrors, user |-> <<>>]

----------------------------------------------------------------------------
(* The state machine                                                       *)

Init ==
    /\ directory \in {d \in [KnownNames -> UNION {RowsOf(n) : n \in KnownNames}] :
                        \A n \in KnownNames : d[n] \in RowsOf(n)}
    /\ form = [p \in Procs |-> IdleForm(directory)]
    /\ prev = [p \in Procs |-> [input |-> NoInput, outcome |-> NoOutcome, puts |-> 0]]

(* A request arrives: the view builds a form from the submitted data and   *)
(* calls validate.  prev remembers the call the request's client made      *)
(* before.                                                                 *)
Begin(p) ==
    /\ form[p].pc \in {"idle", "done"}
    /\ \E in \in Inputs :
          form' = [form EXCEPT ![p] = NewForm(in, directory)]
    /\ prev' = [prev EXCEPT ![p] =
                  IF form[p].pc = "done"
                  THEN [input |-> form[p].input, outcome |-> Outcome(form[p]),
                        puts |-> form[p].puts]
                  ELSE @]
    /\ UNCHANGED directory

(* Request p's validate runs its next lines: its form and the user table   *)
(* become what Step makes of them.                                         *)
Advance(p) ==
    LET r == Step(form[p], directory)
    IN  /\ form' = [form EXCEPT ![p] = r.form]
        /\ directory' = r.dir
        /\ UNCHANGED prev

DoBaseValidate(p) ==
    /\ form[p].pc = "base"
    /\ Advance(p)

DoPresence(p) ==
    /\ form[p].pc = "presence"
    /\ Advance(p)

DoLookup(p) ==
    /\ form[p].pc = "lookup"
    /\ Advance(p)

DoPasswordSet(p) ==
    /\ form[p].pc = "passwordset"
    /\ Advance(p)

DoVerify(p) ==
    /\ form[p].pc = "verify"
    /\ Advance(p)

DoPut(p) ==
    /\ form[p].pc = "store"
    /\ Advance(p)

DoConfirmationGate(p) ==
    /\ form[p].pc = "confirm"
    /\ Advance(p)

DoActiveGate(p) ==
    /\ form[p].pc = "active"
    /\ Advance(p)

Validate(p) ==
    \/ DoBaseValidate(p)
    \/ DoPresence(p)
    \/ DoLookup(p)
    \/ DoPasswordSet(p)
    \/ DoVerify(p)
    \/ DoPut(p)
    \/ DoConfirmationGate(p)
    \/ DoActiveGate(p)

(* One client: its requests run one after the other *)
Next == Begin(1) \/ Validate(1)

Spec == Init /\ [][Next]_vars

(* Independent requests: each builds its own form, and the steps of their  *)
(* validate calls interleave on the shared user table.                     *)
Arrive(p) ==
    /\ form[p].pc \in {"idle", "done"}
    /\ \E in \in Inputs :
          form' = [form EXCEPT ![p] = NewForm(in, directory)]
    /\ UNCHANGED <<directory, prev>>

NextConc == \E p \in Procs : Arrive(p) \/ Validate(p)

SpecConc == Init /\ [][NextConc]_vars

(* The backends can fail: the lookup of line 153 or the verification of    *)
(* line 166 raises instead of returning.                                   *)
DoLookupUnavailable(p) ==
    /\ form[p].pc = "lookup"
    /\ form' = [form EXCEPT ![p] = LookupUnavailable(form[p])]
    /\ UNCHANGED <<directory, prev>>

DoVerifyUnavailable(p) ==
    /\ form[p].pc = "verify"
    /\ form' = [form EXCEPT ![p] = VerifyUnavailable(form[p])]
    /\ UNCHANGED <<directory, prev>>

NextInfra ==
    \/ Begin(1)
    \/ Validate(1)
    \/ DoLookupUnavailable(1)
    \/ DoVerifyUnavailable(1)

SpecInfra == Init /\ [][NextInfra]_vars

----------------------------------------------------------------------------
(* Properties                                                              *)

Done(p) == form[p].pc = "done"

Returned(p) == Done(p) /\ form[p].result \in {"true", "false"}

(* a string that is empty or holds only whitespace *)
IsBlank(s) == \A i \in 1..Len(s) : s[i] = " "

(* the submitted data passes the base validation and both presence checks *)
WellFormed(in) ==
    /\ in.inheritedOk
    /\ ~IsBlank(in.username)
    /\ ~IsBlank(in.password)

(* the row the call of request p found or would find, as it was when the   *)
(* request arrived                                                         *)
RowAtBegin(p) == GetUser(form[p].dir0, form[p].input.username)

(* the submitted password verifies against that row *)
CorrectCredentials(p) ==
    /\ WellFormed(form[p].input)
    /\ RowAtBegin(p) # NoUser
    /\ RowAtBegin(p).password # NoHash
    /\ RowAtBegin(p).password.plain = form[p].input.password

Messages(f) == UNION {{f.errors[x][i] : i \in 1..Len(f.errors[x])} : x \in Fields}

(* C1: a call on an identifier the directory does not know and a call on   *)
(* a known account with a stored hash whose secret fails verification, both *)
(* with non-blank identifier and secret, record the same message text on   *)
(* the same field (username): their field errors are equal.                *)
UnknownIdentifier(in, dir) ==
    WellFormed(in) /\ GetUser(dir, in.username) = NoUser

WrongSecret(in, dir) ==
    /\ WellFormed(in)
    /\ GetUser(dir, in.username) # NoUser
    /\ GetUser(dir, in.username).password # NoHash
    /\ GetUser(dir, in.username).password.plain # in.password

C1_AntiEnumeration ==
    (/\ Done(1)
     /\ prev[1].outcome.result # "none"
     /\ UnknownIdentifier(prev[1].input, directory)
     /\ WrongSecret(form[1].input, directory))
    => /\ prev[1].outcome.errors = form[1].errors
       /\ form[1].errors["username"] = <<"INCORRECT USERNAME/PASSWORD">>

(* C2 as stated: after validate returns, the form's user is non-null if    *)
(* and only if validate succeeded.                                         *)
C2_UserIffSucceeded ==
    \A p \in Procs :
        Returned(p) => ((form[p].user # NoUser) <=> (form[p].result = "true"))

(* C2 amended: after validate ends, success implies the form's user is the *)
(* looked-up account; the form's user is non-null exactly when the         *)
(* directory lookup ran and found an account, also on the failing paths    *)
(* after the lookup.                                                       *)
C2_UserIffFound ==
    \A p \in Procs :
        Done(p) =>
            /\ form[p].result = "true" =>
                  /\ form[p].user # NoUser
                  /\ form[p].user.name = form[p].input.username
            /\ (form[p].user # NoUser) <=>
                  (form[p].lookups = 1 /\ form[p].input.username \in KnownNames)

C2_Witness ==
    \E p \in Procs :
        /\ Returned(p)
        /\ form[p].result = "false"
        /\ form[p].user # NoUser
        /\ "DISABLED ACCOUNT" \in Messages(form[p])

(* C3: validate returns False if and only if at least one field error has  *)
(* been recorded; a successful result carries no field errors.             *)
C3_FailsIffErrors ==
    \A p \in Procs :
        Done(p) =>
            /\ (form[p].result = "false") <=> (form[p].errors # NoErrors)
            /\ form[p].result = "true" => form[p].errors = NoErrors

C3_Witness ==
    \E p \in Procs :
        /\ Done(p)
        /\ form[p].result = "false"
        /\ form[p].errors = [NoErrors EXCEPT !["username"] = <<"DISABLED ACCOUNT">>]

(* C4: validate never raises an exception: every call ends in a returned   *)
(* value.                                                                  *)
C4_NeverRaises ==
    \A p \in Procs : Done(p) => form[p].result \in {"true", "false"}

(* C5: for an identifier that is empty or whitespace-only, validate fails  *)
(* with an error on the username field and the directory lookup is called  *)
(* zero times.                                                             *)
C5_BlankIdentifier ==
    \A p \in Procs :
        (Done(p) /\ IsBlank(form[p].input.username)) =>
            /\ form[p].result = "false"
            /\ form[p].errors["username"] # <<>>
            /\ form[p].lookups = 0
            /\ form[p].user = NoUser

C5_Witness ==
    \E p \in Procs :
        /\ Done(p)
        /\ form[p].input.username = <<" ">>
        /\ form[p].input.inheritedOk
        /\ form[p].result = "false"

(* C6: for a known account that requires confirmation, validate with the   *)
(* correct identifier and secret returns False carrying the message        *)
(* 'CONFIRMATION REQUIRED'.                                                *)
C6_ConfirmationRequired ==
    \A p \in Procs :
        (Done(p) /\ CorrectCredentials(p) /\ RowAtBegin(p).confirm) =>
            /\ form[p].result = "false"
            /\ "CONFIRMATION REQUIRED" \in Messages(form[p])

(* C7 as stated: for a known inactive account that does not require        *)
(* confirmation, validate with correct credentials fails with 'DISABLED    *)
(* ACCOUNT' on the username field and the form's user is null.             *)
DisabledCase(p) ==
    /\ Done(p)
    /\ CorrectCredentials(p)
    /\ ~RowAtBegin(p).confirm
    /\ ~RowAtBegin(p).active

C7_DisabledUserNull ==
    \A p \in Procs :
        DisabledCase(p) =>
            /\ form[p].result = "false"
            /\ form[p].errors["username"] = <<"DISABLED ACCOUNT">>
            /\ form[p].user = NoUser

(* C7 amended: in that case validate fails with 'DISABLED ACCOUNT' as the  *)
(* only message, on the username field, and the form's user is still the   *)
(* looked-up account.                                                      *)
C7_DisabledUserKept ==
    \A p \in Procs :
        DisabledCase(p) =>
            /\ form[p].result = "false"
            /\ form[p].errors = [NoErrors EXCEPT !["username"] = <<"DISABLED ACCOUNT">>]
            /\ form[p].user # NoUser
            /\ form[p].user.name = form[p].input.username

C7_Witness == \E p \in Procs : DisabledCase(p)

(* C8: for correct credentials against an active account that needs no     *)
(* confirmation, validate succeeds; if the stored hash is flagged outdated *)
(* the password is rehashed and stored exactly once in the call, from the  *)
(* submitted plaintext; if it is not flagged, nothing is rehashed or       *)
(* stored.                                                                 *)
C8_RehashOnce ==
    \A p \in Procs :
        /\ (Done(p) /\ CorrectCredentials(p)
                    /\ ~RowAtBegin(p).confirm /\ RowAtBegin(p).active) =>
              /\ form[p].result = "true"
              /\ IF RowAtBegin(p).password.scheme = "deprecated"
                 THEN /\ form[p].puts = 1
                      /\ form[p].putPlain = form[p].input.password
                      /\ directory[form[p].input.username].password
                            = [plain |-> form[p].input.password, scheme |-> "current"]
                 ELSE /\ form[p].puts = 0
                      /\ directory = form[p].dir0
        /\ (Done(p) /\ RowAtBegin(p).password.scheme # "deprecated") =>
              /\ form[p].puts = 0
              /\ directory = form[p].dir0

C8_Witness ==
    \E p \in Procs :
        /\ Done(p)
        /\ form[p].result = "true"
        /\ form[p].puts = 1
        /\ form[p].dir0[form[p].input.username].password.scheme = "deprecated"

(* C9: a validate call that follows a successful call with the same        *)
(* credentials succeeds with the same user, also when the first call       *)
(* rehashed and stored the password; the second call stores nothing.       *)
C9_Idempotent ==
    \A p \in Procs :
        (/\ Done(p)
         /\ prev[p].outcome.result = "true"
         /\ prev[p].input = form[p].input) =>
            /\ form[p].result = "true"
            /\ Outcome(form[p]) = prev[p].outcome
            /\ form[p].puts = 0

C9_Witness ==
    \E p \in Procs :
        /\ Done(p)
        /\ prev[p].outcome.result = "true"
        /\ prev[p].input = form[p].input
        /\ prev[p].puts = 1
        /\ form[p].result = "true"

(* C10: under any interleaving of two requests' validate calls, each       *)
(* call's outcome (return value, field errors, user) is the outcome of the *)
(* same call run alone on the user table the request found.                *)
C10_Isolated ==
    \A p \in Procs :
        Done(p) =>
            Outcome(form[p]) =
                Outcome(RunAlone(NewForm(form[p].input, form[p].dir0),
                                 form[p].dir0).form)

C10_Witness ==
    /\ \A p \in Procs : Done(p) /\ form[p].result = "true" /\ form[p].puts = 1
    /\ form[1].input.username = form[2].input.username

(* C11: when the directory lookup or the hasher verification fails as a    *)
(* backend, validate ends in an outcome that is not a return value: it     *)
(* does not return False (nor True) and records no field error, in         *)
(* particular not 'INCORRECT USERNAME/PASSWORD'.                           *)
C11_InfrastructureError ==
    \A p \in Procs :
        (Done(p) /\ form[p].backend # "ok") =>
            /\ form[p].result = "unavailable"
            /\ form[p].errors = NoErrors
            /\ "INCORRECT USERNAME/PASSWORD" \notin Messages(form[p])

C11_Witness ==
    \E p \in Procs :
        /\ Done(p)
        /\ form[p].backend = "lookup"
        /\ form[p].lookups = 1
        /\ WellFormed(form[p].input)

(* C12: validate succeeds, with the form's user the looked-up account, if  *)
(* and only if the base validation passes, identifier and secret are not   *)
(* blank, the lookup finds an account, the account has a stored hash, the  *)
(* secret verifies, the account needs no confirmation and is active; in    *)
(* every other case it fails (returns False) at the first of these checks, *)
(* in this order, that does not hold.                                      *)
FirstFailing(in, row) ==
    IF ~in.inheritedOk \/ IsBlank(in.username) THEN "base"
    ELSE IF IsBlank(in.password) THEN "secret"
    ELSE IF row = NoUser THEN "lookup"
    ELSE IF row.password = NoHash THEN "hash"
    ELSE IF row.password.plain # in.password THEN "verify"
    ELSE IF row.confirm THEN "confirm"
    ELSE IF ~row.active THEN "active"
    ELSE "none"

(* what a call that stopped at check k leaves behind *)
StoppedAt(f, k) ==
    CASE k = "base"    -> /\ f.lookups = 0 /\ f.verifies = 0
                          /\ f.errors["password"] = <<>>
                          /\ f.errors # NoErrors
      [] k = "secret"  -> /\ f.lookups = 0 /\ f.verifies = 0
                          /\ f.errors = [NoErrors EXCEPT
                                !["password"] = <<"PASSWORD NOT PROVIDED">>]
      [] k = "lookup"  -> /\ f.lookups = 1 /\ f.verifies = 0
                          /\ f.errors = [NoErrors EXCEPT
                                !["username"] = <<"INCORRECT USERNAME/PASSWORD">>]
      [] k = "hash"    -> /\ f.lookups = 1 /\ f.verifies = 0
                          /\ f.errors = [NoErrors EXCEPT
                                !["password"] = <<"PASSWORD WAS NOT SET">>]
      [] k = "verify"  -> /\ f.lookups = 1 /\ f.verifies = 1
                          /\ Messages(f) = {"INCORRECT USERNAME/PASSWORD"}
      [] k = "confirm" -> /\ f.lookups = 1 /\ f.verifies = 1
                          /\ "DISABLED ACCOUNT" \notin Messages(f)
      [] k = "active"  -> /\ f.lookups = 1 /\ f.verifies = 1
                          /\ f.errors = [NoErrors EXCEPT
                                !["username"] = <<"DISABLED ACCOUNT">>]
      [] OTHER         -> FALSE

C12_OrderedChecks ==
    \A p \in Procs :
        Done(p) =>
            LET k == FirstFailing(form[p].input, RowAtBegin(p))
            IN  /\ (k = "none") <=>
                      /\ form[p].result = "true"
                      /\ form[p].user # NoUser
                      /\ form[p].user.name = form[p].input.username
                /\ (k # "none") =>
                      /\ form[p].result = "false"
                      /\ StoppedAt(form[p], k)

(* C13: in every validate call the directory lookup is called at most     *)
(* once and the verification at most once, and the verification only after *)
(* the lookup of that call returned an account with a stored hash: a blank *)
(* identifier or secret causes neither call, an unknown identifier causes  *)
(* no verification, and an account with no stored hash fails with          *)
(* 'PASSWORD WAS NOT SET' on the password field without a verification.    *)
C13_CallsOrdered ==
    \A p \in Procs :
        /\ form[p].lookups \in {0, 1}
        /\ form[p].verifies \in {0, 1}
        /\ form[p].verifies = 1 =>
              /\ form[p].lookups = 1
              /\ form[p].user # NoUser
              /\ RowAtBegin(p) # NoUser
              /\ RowAtBegin(p).password # NoHash
        /\ (IsBlank(form[p].input.username) \/ IsBlank(form[p].input.password)) =>
              /\ form[p].lookups = 0
              /\ form[p].verifies = 0
        /\ (Done(p) /\ WellFormed(form[p].input) /\ RowAtBegin(p) # NoUser
                    /\ RowAtBegin(p).password = NoHash) =>
              /\ form[p].result = "false"
              /\ form[p].lookups = 1
              /\ form[p].errors = [NoErrors EXCEPT
                    !["password"] = <<"PASSWORD WAS NOT SET">>]

C13_Witness ==
    \E p \in Procs :
        /\ Done(p)
        /\ RowAtBegin(p) # NoUser
        /\ RowAtBegin(p).password = NoHash
        /\ form[p].lookups = 1
        /\ form[p].verifies = 0
        /\ "PASSWORD WAS NOT SET" \in Messages(form[p])

(* C14: account status is revealed only after the secret is verified.  For *)
(* a known account that is disabled or requires confirmation, a call whose *)
(* secret fails verification records only 'INCORRECT USERNAME/PASSWORD';   *)
(* for an account that both requires confirmation and is disabled, correct *)
(* credentials are stopped at the confirmation gate and 'DISABLED ACCOUNT' *)
(* is never recorded.                                                      *)
C14_StatusAfterVerification ==
    \A p \in Procs :
        /\ (/\ Done(p)
            /\ WrongSecret(form[p].input, form[p].dir0)
            /\ (RowAtBegin(p).confirm \/ ~RowAtBegin(p).active)) =>
              /\ form[p].result = "false"
              /\ Messages(form[p]) = {"INCORRECT USERNAME/PASSWORD"}
        /\ (/\ CorrectCredentials(p)
            /\ RowAtBegin(p).confirm
            /\ ~RowAtBegin(p).active) =>
              /\ form[p].pc # "active"
              /\ form[p].result # "true"
              /\ "DISABLED ACCOUNT" \notin Messages(form[p])

C14_Witness ==
    /\ Done(1)
    /\ CorrectCredentials(1)
    /\ RowAtBegin(1).confirm
    /\ ~RowAtBegin(1).active
    /\ WrongSecret(prev[1].input, directory)
    /\ prev[1].input.username = form[1].input.username
    /\ prev[1].outcome.result = "false"

====
